---------------------------- MODULE Spec2Model ----------------------------
(***************************************************************************)
(* Model of the edge-device console: the LiveView streaming scheduler and  *)
(* its telemetry (live-view component), the page-level detection event     *)
(* store (app/page.tsx), the DashboardView stream toggle, the              *)
(* DetectionsList filter, the canvas the frames are painted on, and the    *)
(* page's health and alarm pollers with the alarm control action.          *)
(*                                                                         *)
(* React is modelled at the granularity of one event-loop task plus the    *)
(* commit it schedules: a handler's state updates, the re-render and the   *)
(* passive effects whose dependencies changed are one step.  Timer ticks   *)
(* (interval >= 250 ms), network responses and file reads are separate     *)
(* steps that may interleave freely.                                       *)
(*                                                                         *)
(* Units: time in milliseconds, confidence in thousandths (0.9 = 900).     *)
(***************************************************************************)
EXTENDS Integers, Sequences, FiniteSets

VARIABLES
    \* ---- LiveView (src/unnamed/part_002) ----
    isModelLoaded,        \* prop
    isStreaming,          \* useState
    isProcessing,         \* useState
    fps,                  \* useState
    streamIntervalRef,    \* useRef: handle of the interval, 0 = null
    latencyHistoryRef,    \* useRef: sequence of latencies
    detectionHistoryRef,  \* useRef: sequence of [timestamp, count]
    frameCountRef,        \* useRef
    currentLatency,       \* useState
    detectionCount,       \* useState
    \* ---- page (src/app/page.tsx) ----
    sessionStats,
    detectionEvents,
    health,               \* useState<HealthStatus | null>: <<>> = null
    alarmStatus,          \* useState<AlarmStatus | null>: <<>> = null
    \* ---- LiveView canvas ----
    showOverlay,          \* useState
    canvas,               \* canvasRef.current: its size and what is on it
    \* ---- DashboardView / DetectionsList ----
    dashStreaming,
    filterLabel,
    minConfidence,
    \* ---- platform and remote device ----
    timers,               \* live intervals, each with the closure it captured
    now,                  \* Date.now()
    inflight,             \* inference calls awaiting their response
    readers,              \* FileReaders awaiting onload, each with its closure
    images,               \* Images awaiting onload, each with its closure
    healthDue,            \* when the health interval fires next
    alarmDue,             \* when the alarm interval fires next
    healthRequests,       \* api.getHealth calls awaiting their response
    alarmRequests,        \* getAlarmStatus / controlAlarm calls awaiting
                          \* their response
    \* ---- AlarmControl (src/unnamed/part_000) ----
    isLoading,            \* useState
    controlRequests,      \* its api.controlAlarm calls awaiting their response
    script,               \* the run's environment: the device's scripted
                          \* responses, or "free"/"deep" for any response
    \* ---- history (not program state) ----
    calls,                \* number of inference calls issued
    samples,              \* every latency sample recorded, in arrival order
    appended,             \* number of events handed to handleDetection
    recorded,             \* every detection-window entry recorded, in order
    lastOp,               \* the last operation: the scheduler handlers it
                          \* ran (log), the toast it raised and the
                          \* inference call it settled
    requests,             \* number of health and alarm requests issued
    pageOp                \* the last operation of the page: its name, the
                          \* toast it raised and the request it settled

vars == << isModelLoaded, isStreaming, isProcessing, fps, streamIntervalRef,
           latencyHistoryRef, detectionHistoryRef, frameCountRef,
           currentLatency, detectionCount, sessionStats, detectionEvents,
           dashStreaming, filterLabel, minConfidence,
           health, alarmStatus, showOverlay, canvas, images,
           healthDue, alarmDue, healthRequests, alarmRequests,
           timers, now, inflight, readers, script, calls,
           samples, appended, recorded, lastOp, requests, pageOp,
           isLoading, controlRequests >>

-----------------------------------------------------------------------------
(* Program constants *)

LatencyCapacity == 60
WindowMs == 60000
StoreCapacity == 50
FpsOptions == {1, 2, 4}

(* Bounds of the model *)

MaxCalls == 2
MaxDeepCalls == 3
MaxReaders == 1
MaxScriptCalls == 62
MaxWindowCalls == 3
MaxWindowClock == 61300
MaxFilterCalls == 3
MaxPageRequests == 3
MaxPendingRequests == 2
MaxPageClock == 5000
MaxCanvasCalls == 2
MaxControlRequests == 4

\* the calls a run of the unscripted console may issue
CallBudget == IF script = "deep" THEN MaxDeepCalls ELSE MaxCalls

\* time from a moment on to the arrival of a response
ResponseDelays == {100}

\* idle periods of the detection-window runs
IdlePeriods == {29900, 30000, 61000}

-----------------------------------------------------------------------------
(* Bounding boxes and responses the remote device may return *)

Box(l, c) == [label |-> l, confidence |-> c,
              x_min |-> 0, y_min |-> 0, x_max |-> 100, y_max |-> 50]

Car90 == Box("car", 900)
Dog40 == Box("dog", 400)
Car30 == Box("car", 300)

Dog95 == Box("dog", 950)

FreeResponses == { <<>>, <<Car90>> }
WindowResponses == { <<>>, <<Car90>>, <<Dog40, Car30>> }
FilterResponses == { <<>>, <<Car90>>, <<Dog40>>, <<Car30>>, <<Car30, Dog95>> }

Scripts == {"ascending", "descending", "sawtooth", "slow"}

\* latency of the n-th call of a scripted run
ScriptLatency(sc, n) ==
    CASE sc = "ascending"  -> 10 * n
      [] sc = "descending" -> 10 * (70 - n)
      [] sc = "sawtooth"   -> 10 * ((n * 7) % 11) + 5
      [] OTHER             -> 2000

\* detections of the n-th response of a scripted run
ScriptDetections(sc, n) ==
    CASE sc = "ascending"  -> <<Car90>>
      [] sc = "descending" -> IF n % 2 = 0 THEN <<>> ELSE <<Dog40>>
      [] sc = "sawtooth"   -> IF n % 3 = 0 THEN <<Dog40, Car30>> ELSE <<>>
      [] OTHER             -> IF n % 4 = 0 THEN <<>> ELSE <<Car90>>

-----------------------------------------------------------------------------
(* Array helpers *)

RECURSIVE SumSeq(_)
SumSeq(s) ==
    IF Len(s) = 0 THEN 0
    ELSE IF Len(s) = 1 THEN s[1]
    ELSE LET half == Len(s) \div 2
         IN SumSeq(SubSeq(s, 1, half)) + SumSeq(SubSeq(s, half + 1, Len(s)))

\* [...s].sort((a, b) => a - b): ascending and stable; each element goes to
\* the position given by the number of elements the comparator puts before it
SortAsc(s) ==
    LET Before(j, k) == s[j] < s[k] \/ (s[j] = s[k] /\ j < k)
        position == [k \in DOMAIN s |->
                        1 + Cardinality({j \in DOMAIN s : Before(j, k)})]
    IN [i \in DOMAIN s |-> s[CHOOSE k \in DOMAIN s : position[k] = i]]

Slice(s, n) == SubSeq(s, 1, IF Len(s) < n THEN Len(s) ELSE n)

-----------------------------------------------------------------------------
(* Telemetry aggregator: LiveView.processFrame, success path *)

\* push without the shift
PushLatency_NoShift(hist, latency) == Append(hist, latency)

\* latencyHistoryRef.current.push(latency); if (length > 60) shift()
PushLatency(hist, latency) ==
    LET pushed == Append(hist, latency)
    IN IF Len(pushed) > LatencyCapacity THEN Tail(pushed) ELSE pushed

\* the window kept with <= 60000 instead of < 60000
RecordDetections_Inclusive(window, count, t) ==
    SelectSeq(Append(window, [timestamp |-> t, count |-> count]),
              LAMBDA entry : t - entry.timestamp <= WindowMs)

\* detectionHistoryRef.current.push({timestamp: now, count}); then
\* filter((entry) => now - entry.timestamp < 60000)
RecordDetections(window, count, t) ==
    SelectSeq(Append(window, [timestamp |-> t, count |-> count]),
              LAMBDA entry : t - entry.timestamp < WindowMs)

\* the sum divided by the length the buffer had before the push
AvgLatency_LengthBeforePush(hist) == [num |-> SumSeq(hist), den |-> Len(hist) - 1]

\* the sum divided by the capacity instead of the length
AvgLatency_OverCapacity(hist) == [num |-> SumSeq(hist), den |-> LatencyCapacity]

\* reduce((a, b) => a + b, 0) / length, kept as the exact quotient num/den
AvgLatency(hist) == [num |-> SumSeq(hist), den |-> Len(hist)]

\* the index applied to the buffer as it is, unsorted
P95Latency_Unsorted(hist) ==
    LET p95Index == (Len(hist) * 95) \div 100
    IN IF p95Index + 1 \in DOMAIN hist THEN hist[p95Index + 1] ELSE 0

\* sortedLatencies[Math.floor(sortedLatencies.length * 0.95)] || 0
\* (Math.floor(n * 0.95) = (n * 95) \div 100 for every n in 0 .. 61)
P95Latency(hist) ==
    LET sortedLatencies == SortAsc(hist)
        p95Index == (Len(sortedLatencies) * 95) \div 100
    IN IF p95Index + 1 \in DOMAIN sortedLatencies
       THEN sortedLatencies[p95Index + 1]
       ELSE 0

RECURSIVE SumCounts(_)
SumCounts(window) ==
    IF Len(window) = 0 THEN 0
    ELSE IF Len(window) = 1 THEN window[1].count
    ELSE LET half == Len(window) \div 2
         IN SumCounts(SubSeq(window, 1, half))
              + SumCounts(SubSeq(window, half + 1, Len(window)))

\* detectionsInLastMin = reduce((sum, entry) => sum + entry.count, 0)
DetectionsPerMin(window) == SumCounts(window)

\* the stats published with the frame count read before its increment
Snapshot_FramesBeforeIncrement(hist, window, frames) ==
    [ avgLatency       |-> AvgLatency(hist),
      p95Latency       |-> P95Latency(hist),
      detectionsPerMin |-> DetectionsPerMin(window),
      totalFrames      |-> frames - 1,
      latencyHistory   |-> hist ]

\* the SessionStats object handed to onStatsUpdate
Snapshot(hist, window, frames) ==
    [ avgLatency       |-> AvgLatency(hist),
      p95Latency       |-> P95Latency(hist),
      detectionsPerMin |-> DetectionsPerMin(window),
      totalFrames      |-> frames,
      latencyHistory   |-> hist ]

\* useState initial value in EdgeDeviceConsole (avgLatency 0 kept as 0/1)
InitialStats ==
    [ avgLatency       |-> [num |-> 0, den |-> 1],
      p95Latency       |-> 0,
      detectionsPerMin |-> 0,
      totalFrames      |-> 0,
      latencyHistory   |-> <<>> ]

-----------------------------------------------------------------------------
(* Detection event store: EdgeDeviceConsole.handleDetection *)

\* the event appended at the end instead of the front
handleDetection_AtEnd(prev, event) == Slice(prev \o <<event>>, StoreCapacity)

\* setDetectionEvents((prev) => [event, ...prev].slice(0, 50))
handleDetection(prev, event) == Slice(<<event>> \o prev, StoreCapacity)

NewEvent(n, t, dets) == [id |-> n, timestamp |-> t, detections |-> dets]

-----------------------------------------------------------------------------
(* DetectionsList.filteredDetections *)

\* label and confidence required of one and the same box
KeepEvent_SameBox(event, label, minConf) ==
    \E i \in DOMAIN event.detections :
        /\ label = "all" \/ event.detections[i].label = label
        /\ event.detections[i].confidence >= minConf * 10

KeepEvent(event, label, minConf) ==
    LET boxes == event.detections
        \* filterLabel === "all" || event.detections.some((d) => d.label === filterLabel)
        hasMatchingLabel ==
            label = "all" \/ \E i \in DOMAIN boxes : boxes[i].label = label
        \* event.detections.some((d) => d.confidence >= minConfidence / 100),
        \* confidence in thousandths
        hasMinConfidence ==
            \E i \in DOMAIN boxes : boxes[i].confidence >= minConf * 10
    IN hasMatchingLabel /\ hasMinConfidence

\* detections.filter(...), a new array
FilterEvents(events, label, minConf) ==
    SelectSeq(events, LAMBDA event : KeepEvent(event, label, minConf))

filteredDetections == FilterEvents(detectionEvents, filterLabel, minConfidence)

-----------------------------------------------------------------------------
(* Canvas: LiveView.drawBoundingBoxes and the img.onload of processFrame.   *)
(* Coordinates are kept as exact quotients num/den.                        *)

\* a <canvas> without width and height attributes
BlankCanvas == [width |-> 300, height |-> 150, image |-> FALSE, boxes |-> <<>>]

\* strokeRect with the box's corner as its size
StrokeRect_CornerAsSize(detection, scaleX, scaleY) ==
    [ x      |-> [num |-> detection.x_min * scaleX.num, den |-> scaleX.den],
      y      |-> [num |-> detection.y_min * scaleY.num, den |-> scaleY.den],
      width  |-> [num |-> detection.x_max * scaleX.num, den |-> scaleX.den],
      height |-> [num |-> detection.y_max * scaleY.num, den |-> scaleY.den] ]

\* strokeRect(x, y, width, height) of one detection
StrokeRect(detection, scaleX, scaleY) ==
    [ x      |-> [num |-> detection.x_min * scaleX.num, den |-> scaleX.den],
      y      |-> [num |-> detection.y_min * scaleY.num, den |-> scaleY.den],
      width  |-> [num |-> (detection.x_max - detection.x_min) * scaleX.num,
                  den |-> scaleX.den],
      height |-> [num |-> (detection.y_max - detection.y_min) * scaleY.num,
                  den |-> scaleY.den] ]

\* if (!ctx || !showOverlay) return; clearRect over the whole canvas, which
\* also wipes the image drawn on it; then one strokeRect per detection
drawBoundingBoxes(cv, detections, imageWidth, imageHeight, overlay) ==
    IF ~overlay THEN cv
    ELSE LET scaleX == [num |-> cv.width, den |-> imageWidth]
             scaleY == [num |-> cv.height, den |-> imageHeight]
         IN [cv EXCEPT !.image = FALSE,
                       !.boxes = [k \in DOMAIN detections |->
                                     StrokeRect(detections[k], scaleX, scaleY)]]

\* img.onload: the canvas takes the image's aspect ratio within 800 x 600
\* (setting canvas.width / canvas.height truncates to an integer and resets
\* the canvas), the image is drawn, then drawBoundingBoxes
imgOnload(img) ==
    LET tooHigh == 800 * img.height > 600 * img.width
        canvasWidth == IF tooHigh THEN (600 * img.width) \div img.height ELSE 800
        canvasHeight == IF tooHigh THEN 600 ELSE (800 * img.height) \div img.width
        drawn == [width |-> canvasWidth, height |-> canvasHeight,
                  image |-> TRUE, boxes |-> <<>>]
    IN drawBoundingBoxes(drawn, img.detections, img.width, img.height,
                         img.showOverlay)

\* response.encoded_image: absent, or an image of some size
NoImage == [width |-> 0, height |-> 0]
ImageSizes == { [width |-> 200, height |-> 100],
                [width |-> 100, height |-> 200],
                [width |-> 300, height |-> 200] }

\* the image the device returns with the response to call n: only the
\* device of the canvas runs returns one
ResponseImage(sc, n) ==
    CASE sc = "wide"   -> [width |-> 200, height |-> 100]
      [] sc = "tall"   -> IF n % 2 = 1 THEN [width |-> 100, height |-> 200]
                          ELSE [width |-> 300, height |-> 200]
      [] sc = "blind"  -> IF n % 2 = 1 THEN [width |-> 200, height |-> 100]
                          ELSE NoImage
      [] OTHER         -> NoImage

\* new Image() with its onload: the closure holds the response's detections
\* and the drawBoundingBoxes of the render the cycle started in
NewImage(size, dets, call) ==
    [ width |-> size.width, height |-> size.height, detections |-> dets,
      showOverlay |-> call.showOverlay, call |-> call.id ]

-----------------------------------------------------------------------------
(* Streaming scheduler: LiveView.startStream / stopStream / fps effect.     *)
(* The handlers are written as functions of the scheduler's part of the    *)
(* state so that the effect can run one after the other.                   *)

\* no inference call
NoCall == [id |-> 0, start |-> 0, source |-> "none", showOverlay |-> FALSE]

Sched ==
    [ isStreaming |-> isStreaming,
      ref         |-> streamIntervalRef,
      timers      |-> timers,
      toast       |-> "none",
      log         |-> <<>>,
      settled     |-> NoCall ]

\* what a render's callbacks close over
Closure(f, loaded, processing) ==
    [fps |-> f, isModelLoaded |-> loaded, isProcessing |-> processing]

\* setInterval(() => { if (!isProcessing) processFrame() }, 1000 / fps)
NewTimer(id, c) ==
    [ id            |-> id,
      interval      |-> 1000 \div c.fps,
      isProcessing  |-> c.isProcessing,
      isModelLoaded |-> c.isModelLoaded ]

\* the handle setInterval returns: one that no live interval has
\* (handles are compared only for identity, so the least free one is taken)
FreshHandle(live) ==
    CHOOSE id \in 1 .. Cardinality(live) + 1 :
        /\ \A t \in live : t.id # id
        /\ \A other \in 1 .. id - 1 : \E t \in live : t.id = other

\* startStream without its isModelLoaded guard
startStream_Unguarded(s, c) ==
    LET id == FreshHandle(s.timers)
    IN [s EXCEPT !.isStreaming = TRUE,
                 !.timers = @ \cup {NewTimer(id, c)},
                 !.ref = id,
                 !.log = Append(@, "startStream")]

\* if (!isModelLoaded) { toast(...); return }
\* setIsStreaming(true); streamIntervalRef.current = setInterval(..., 1000 / fps)
startStream(s, c) ==
    IF ~c.isModelLoaded
    THEN [s EXCEPT !.toast = "Model Not Loaded",
                   !.log = Append(@, "startStream")]
    ELSE LET id == FreshHandle(s.timers)
         IN [s EXCEPT !.isStreaming = TRUE,
                      !.timers = @ \cup {NewTimer(id, c)},
                      !.ref = id,
                      !.log = Append(@, "startStream")]

\* stopStream that clears the interval and leaves isStreaming set
stopStream_KeepsStreaming(s) ==
    [s EXCEPT !.timers = IF s.ref # 0 THEN {t \in @ : t.id # s.ref} ELSE @,
              !.ref = 0,
              !.log = Append(@, "stopStream")]

\* stopStream that forgets the handle without clearing the interval
stopStream_NoClear(s) ==
    [s EXCEPT !.isStreaming = FALSE,
              !.ref = 0,
              !.log = Append(@, "stopStream")]

\* setIsStreaming(false); clearInterval(streamIntervalRef.current); ref = null
stopStream(s) ==
    [s EXCEPT !.isStreaming = FALSE,
              !.timers = IF s.ref # 0 THEN {t \in @ : t.id # s.ref} ELSE @,
              !.ref = 0,
              !.log = Append(@, "stopStream")]

\* the effect starting a timer without stopping the current one
fpsEffect_NoStop(s, c) == IF s.isStreaming THEN startStream(s, c) ELSE s

\* useEffect(() => { if (isStreaming) { stopStream(); startStream() } }, ...)
fpsEffect(s, c) ==
    IF s.isStreaming THEN startStream(stopStream(s), c) ELSE s

\* The commit after a handler: the effect runs when one of its dependencies
\* (fps, isStreaming, startStream, stopStream) changed, and once more when
\* the effect itself changed isStreaming.
Commit(s, depsChanged, c) ==
    LET s1 == IF depsChanged \/ s.isStreaming # isStreaming
              THEN fpsEffect(s, c) ELSE s
    IN IF s1.isStreaming # s.isStreaming THEN fpsEffect(s1, c) ELSE s1

SetSched(s) ==
    /\ isStreaming' = s.isStreaming
    /\ streamIntervalRef' = s.ref
    /\ timers' = s.timers
    /\ lastOp' = [log |-> s.log, toast |-> s.toast, settled |-> s.settled]

-----------------------------------------------------------------------------
(* Actions *)

telemetryVars == << latencyHistoryRef, detectionHistoryRef, frameCountRef,
                    currentLatency, detectionCount, sessionStats,
                    detectionEvents, samples, appended,
                    recorded >>
filterVars == << filterLabel, minConfidence >>
canvasVars == << showOverlay, canvas, images >>
alarmControlVars == << isLoading, controlRequests >>
pageVars == << health, alarmStatus, healthDue, alarmDue, healthRequests,
               alarmRequests, requests, pageOp, alarmControlVars >>
cycleVars == << isProcessing, inflight, calls >>

Cur == Closure(fps, isModelLoaded, isProcessing)

\* an operation that runs none of the scheduler's handlers
Quiet(raised) == [log |-> <<>>, toast |-> raised, settled |-> NoCall]

RemoveAt(s, i) == SubSeq(s, 1, i - 1) \o SubSeq(s, i + 1, Len(s))

\* <Button onClick={startStream} disabled={!isModelLoaded}>, shown when !isStreaming
StartStreamClick ==
    /\ ~isStreaming
    /\ isModelLoaded
    /\ SetSched(Commit(startStream(Sched, Cur), FALSE, Cur))
    /\ UNCHANGED << isModelLoaded, fps, cycleVars, telemetryVars, filterVars, canvasVars, pageVars,
                    dashStreaming, now, readers, script >>

\* a Stop button that also resets the session's buffers
StopStreamClick_ClearsBuffers ==
    /\ isStreaming
    /\ SetSched(Commit(stopStream(Sched), FALSE, Cur))
    /\ latencyHistoryRef' = <<>>
    /\ detectionHistoryRef' = <<>>
    /\ frameCountRef' = 0
    /\ UNCHANGED << isModelLoaded, fps, cycleVars, currentLatency,
                    detectionCount, sessionStats, detectionEvents, samples,
                    appended, recorded, filterVars, canvasVars, pageVars,
                    dashStreaming, now, readers, script >>

\* <Button onClick={stopStream}>, shown when isStreaming
StopStreamClick ==
    /\ isStreaming
    /\ SetSched(Commit(stopStream(Sched), FALSE, Cur))
    /\ UNCHANGED << isModelLoaded, fps, cycleVars, telemetryVars, filterVars, canvasVars, pageVars,
                    dashStreaming, now, readers, script >>

\* <Select onValueChange={(value) => setFps(Number.parseInt(value))}>
SetFps(f) ==
    /\ f # fps
    /\ fps' = f
    /\ SetSched(Commit(Sched, TRUE, Closure(f, isModelLoaded, isProcessing)))
    /\ UNCHANGED << isModelLoaded, cycleVars, telemetryVars, filterVars, canvasVars, pageVars,
                    dashStreaming, now, readers, script >>

\* a new isModelLoaded that does not re-run the effect
SetModelLoaded_NoEffect(b) ==
    /\ b # isModelLoaded
    /\ isModelLoaded' = b
    /\ SetSched(Sched)
    /\ UNCHANGED << fps, cycleVars, telemetryVars, filterVars, canvasVars, pageVars,
                    dashStreaming, now, readers, script >>

\* the parent passes a new isModelLoaded
SetModelLoaded(b) ==
    /\ b # isModelLoaded
    /\ isModelLoaded' = b
    /\ SetSched(Commit(Sched, TRUE, Closure(fps, b, isProcessing)))
    /\ UNCHANGED << fps, cycleVars, telemetryVars, filterVars, canvasVars, pageVars,
                    dashStreaming, now, readers, script >>

\* the parent re-renders and passes callbacks of a new identity
\* (onDetection is not memoized in EdgeDeviceConsole)
PropsChanged ==
    /\ SetSched(Commit(Sched, TRUE, Cur))
    /\ UNCHANGED << isModelLoaded, fps, cycleVars, telemetryVars, filterVars, canvasVars, pageVars,
                    dashStreaming, now, readers, script >>

\* processFrame up to its await: `loaded` and `overlay` are the isModelLoaded
\* and the showOverlay (of drawBoundingBoxes) the callback closed over
ProcessFrame(loaded, overlay, source) ==
    IF ~loaded
    THEN /\ SetSched([Sched EXCEPT !.toast = "Model Not Loaded"])
         /\ UNCHANGED cycleVars
    ELSE /\ isProcessing' = TRUE
         /\ inflight' = Append(inflight, [id |-> calls + 1, start |-> now,
                                          source |-> source,
                                          showOverlay |-> overlay])
         /\ calls' = calls + 1
         /\ SetSched(Commit(Sched, ~isProcessing,
                            Closure(fps, isModelLoaded, TRUE)))

\* the interval's callback: if (!isProcessing) processFrame(); a change of
\* showOverlay restarts the timer, so its processFrame has the current one
Tick(t) ==
    /\ t \in timers
    /\ IF t.isProcessing
       THEN /\ SetSched(Sched)
            /\ UNCHANGED cycleVars
       ELSE ProcessFrame(t.isModelLoaded, showOverlay, "tick")
    /\ UNCHANGED << isModelLoaded, fps, telemetryVars, filterVars, canvasVars, pageVars,
                    dashStreaming, now, readers, script >>

\* <Button onClick={captureFrame} disabled={!isModelLoaded || isProcessing}>
CaptureFrameClick ==
    /\ isModelLoaded
    /\ ~isProcessing
    /\ ProcessFrame(isModelLoaded, showOverlay, "capture")
    /\ UNCHANGED << isModelLoaded, fps, telemetryVars, filterVars, canvasVars, pageVars,
                    dashStreaming, now, readers, script >>

\* handleImageUpload: a file is chosen and reader.readAsDataURL(file) starts
SelectFile ==
    /\ readers' = Append(readers, [isModelLoaded |-> isModelLoaded,
                                  showOverlay |-> showOverlay])
    /\ lastOp' = Quiet("none")
    /\ UNCHANGED << isModelLoaded, isStreaming, fps, streamIntervalRef, timers,
                    cycleVars, telemetryVars, filterVars, canvasVars, pageVars,
                    dashStreaming, now, script >>

\* reader.onload: processFrame(false, base64Data)
ReaderLoaded(i) ==
    /\ i \in DOMAIN readers
    /\ readers' = RemoveAt(readers, i)
    /\ ProcessFrame(readers[i].isModelLoaded, readers[i].showOverlay, "upload")
    /\ UNCHANGED << isModelLoaded, fps, telemetryVars, filterVars, canvasVars, pageVars,
                    dashStreaming, now, script >>

\* processFrame creating an event for every response, with or without
\* detections
InferenceSuccess_AlwaysAppends(i, dets, t) ==
    /\ i \in DOMAIN inflight
    /\ t >= now
    /\ now' = t
    /\ LET latency == t - inflight[i].start
           hist == PushLatency(latencyHistoryRef, latency)
           window == RecordDetections(detectionHistoryRef, Len(dets), t)
       IN /\ currentLatency' = latency
          /\ latencyHistoryRef' = hist
          /\ detectionCount' = Len(dets)
          /\ detectionHistoryRef' = window
          /\ frameCountRef' = frameCountRef + 1
          /\ sessionStats' = Snapshot(hist, window, frameCountRef + 1)
          /\ samples' = Append(samples, latency)
          /\ recorded' = Append(recorded, [timestamp |-> t, count |-> Len(dets)])
    /\ detectionEvents' =
           handleDetection(detectionEvents, NewEvent(appended + 1, t, dets))
    /\ appended' = appended + 1
    /\ images' = IF ResponseImage(script, inflight[i].id) # NoImage
                 THEN Append(images, NewImage(ResponseImage(script, inflight[i].id),
                                              dets, inflight[i]))
                 ELSE images
    /\ isProcessing' = FALSE
    /\ inflight' = RemoveAt(inflight, i)
    /\ SetSched(Commit([Sched EXCEPT !.settled = inflight[i]], isProcessing,
                       Closure(fps, isModelLoaded, FALSE)))
    /\ UNCHANGED << isModelLoaded, fps, calls, filterVars, dashStreaming,
                    readers, script, showOverlay, canvas, pageVars >>

\* processFrame from the response of api.runInference, which arrives at
\* time t, to the end of finally
InferenceSuccess(i, dets, t) ==
    /\ i \in DOMAIN inflight
    /\ t >= now
    /\ now' = t
    /\ LET latency == t - inflight[i].start
           hist == PushLatency(latencyHistoryRef, latency)
           window == RecordDetections(detectionHistoryRef, Len(dets), t)
       IN /\ currentLatency' = latency
          /\ latencyHistoryRef' = hist
          /\ detectionCount' = Len(dets)
          /\ detectionHistoryRef' = window
          /\ frameCountRef' = frameCountRef + 1
          /\ sessionStats' = Snapshot(hist, window, frameCountRef + 1)
          /\ samples' = Append(samples, latency)
          /\ recorded' = Append(recorded, [timestamp |-> t, count |-> Len(dets)])
    /\ IF Len(dets) > 0
       THEN /\ detectionEvents' =
                   handleDetection(detectionEvents, NewEvent(appended + 1, t, dets))
            /\ appended' = appended + 1
       ELSE UNCHANGED << detectionEvents, appended >>
    /\ images' = IF ResponseImage(script, inflight[i].id) # NoImage
                 THEN Append(images, NewImage(ResponseImage(script, inflight[i].id),
                                              dets, inflight[i]))
                 ELSE images
    /\ isProcessing' = FALSE
    /\ inflight' = RemoveAt(inflight, i)
    /\ SetSched(Commit([Sched EXCEPT !.settled = inflight[i]], isProcessing,
                       Closure(fps, isModelLoaded, FALSE)))
    /\ UNCHANGED << isModelLoaded, fps, calls, filterVars, dashStreaming,
                    readers, script, showOverlay, canvas, pageVars >>

\* processFrame counting the frame before the call is awaited, so that a
\* failed cycle counts too
InferenceFailure_CountsFrame(i, t) ==
    /\ i \in DOMAIN inflight
    /\ t >= now
    /\ now' = t
    /\ isProcessing' = FALSE
    /\ inflight' = RemoveAt(inflight, i)
    /\ frameCountRef' = frameCountRef + 1
    /\ SetSched(Commit([Sched EXCEPT !.toast = "Inference Failed",
                                     !.settled = inflight[i]],
                       isProcessing, Closure(fps, isModelLoaded, FALSE)))
    /\ UNCHANGED << isModelLoaded, fps, calls, latencyHistoryRef,
                    detectionHistoryRef, currentLatency, detectionCount,
                    sessionStats, detectionEvents, samples, appended, recorded,
                    filterVars, canvasVars, pageVars, dashStreaming, readers,
                    script >>

\* processFrame whose failure path leaves isProcessing set
InferenceFailure_KeepsBusy(i, t) ==
    /\ i \in DOMAIN inflight
    /\ t >= now
    /\ now' = t
    /\ isProcessing' = isProcessing
    /\ inflight' = RemoveAt(inflight, i)
    /\ SetSched(Commit([Sched EXCEPT !.toast = "Inference Failed",
                                     !.settled = inflight[i]],
                       FALSE, Cur))
    /\ UNCHANGED << isModelLoaded, fps, calls, telemetryVars, filterVars,
                    canvasVars, pageVars, dashStreaming, readers, script >>

\* processFrame from the rejection of api.runInference, at time t, to the
\* end of finally
InferenceFailure(i, t) ==
    /\ i \in DOMAIN inflight
    /\ t >= now
    /\ now' = t
    /\ isProcessing' = FALSE
    /\ inflight' = RemoveAt(inflight, i)
    /\ SetSched(Commit([Sched EXCEPT !.toast = "Inference Failed",
                                     !.settled = inflight[i]],
                       isProcessing, Closure(fps, isModelLoaded, FALSE)))
    /\ UNCHANGED << isModelLoaded, fps, calls, telemetryVars, filterVars, canvasVars, pageVars,
                    dashStreaming, readers, script >>

\* time passes with nothing else happening
AdvanceClock(d) ==
    /\ d > 0
    /\ now' = now + d
    /\ lastOp' = Quiet("none")
    /\ UNCHANGED << isModelLoaded, isStreaming, fps, streamIntervalRef, timers,
                    cycleVars, telemetryVars, filterVars, canvasVars, pageVars,
                    dashStreaming, readers, script >>

\* <Button onClick={() => setShowOverlay(!showOverlay)}>: drawBoundingBoxes,
\* processFrame and startStream are new callbacks, so the effect restarts a
\* running stream; nothing repaints the canvas
ToggleOverlay ==
    /\ showOverlay' = ~showOverlay
    /\ SetSched(Commit(Sched, TRUE, Cur))
    /\ UNCHANGED << isModelLoaded, fps, cycleVars, telemetryVars, filterVars,
                    canvas, images, pageVars, dashStreaming, now, readers,
                    script >>

\* img.onload of the i-th pending image
ImageLoaded(i) ==
    /\ i \in DOMAIN images
    /\ canvas' = imgOnload(images[i])
    /\ images' = RemoveAt(images, i)
    /\ lastOp' = Quiet("none")
    /\ UNCHANGED << isModelLoaded, isStreaming, fps, streamIntervalRef, timers,
                    cycleVars, telemetryVars, filterVars, showOverlay,
                    pageVars, dashStreaming, now, readers, script >>

\* drawBoundingBoxes applied to the canvas as it is
DrawBoxes(detections, size) ==
    /\ canvas' = drawBoundingBoxes(canvas, detections, size.width, size.height,
                                   showOverlay)
    /\ lastOp' = Quiet("none")
    /\ UNCHANGED << isModelLoaded, isStreaming, fps, streamIntervalRef, timers,
                    cycleVars, telemetryVars, filterVars, showOverlay, images,
                    pageVars, dashStreaming, now, readers, script >>

\* DashboardView.handleStartStream; health?.model.loaded is isModelLoaded
handleStartStream ==
    /\ ~dashStreaming
    /\ IF ~isModelLoaded
       THEN /\ lastOp' = Quiet("Model Not Loaded")
            /\ UNCHANGED dashStreaming
       ELSE /\ dashStreaming' = TRUE
            /\ lastOp' = Quiet("none")
    /\ UNCHANGED << isModelLoaded, isStreaming, fps, streamIntervalRef, timers,
                    cycleVars, telemetryVars, filterVars, canvasVars, pageVars, now,
                    readers, script >>

\* DashboardView.handleStopStream
handleStopStream ==
    /\ dashStreaming
    /\ dashStreaming' = FALSE
    /\ lastOp' = Quiet("none")
    /\ UNCHANGED << isModelLoaded, isStreaming, fps, streamIntervalRef, timers,
                    cycleVars, telemetryVars, filterVars, canvasVars, pageVars,
                    now, readers, script >>

\* the labels the filter's Select offers
uniqueLabels ==
    UNION { { detectionEvents[i].detections[j].label :
                j \in DOMAIN detectionEvents[i].detections } :
            i \in DOMAIN detectionEvents }

MinConfidenceInputs == {0, 40, 50, 95}

\* DetectionsList: <Select value={filterLabel} onValueChange={setFilterLabel}>
SetFilterLabel(l) ==
    /\ l # filterLabel
    /\ filterLabel' = l
    /\ lastOp' = Quiet("none")
    /\ UNCHANGED << isModelLoaded, isStreaming, fps, streamIntervalRef, timers,
                    cycleVars, telemetryVars, minConfidence, canvasVars,
                    pageVars, dashStreaming, now, readers, script >>

\* DetectionsList: setMinConfidence(Number.parseInt(e.target.value) || 0)
SetMinConfidence(m) ==
    /\ m # minConfidence
    /\ minConfidence' = m
    /\ lastOp' = Quiet("none")
    /\ UNCHANGED << isModelLoaded, isStreaming, fps, streamIntervalRef, timers,
                    cycleVars, telemetryVars, filterLabel, canvasVars,
                    pageVars, dashStreaming, now, readers, script >>

-----------------------------------------------------------------------------
(* Specifications *)

-----------------------------------------------------------------------------
(* Page: EdgeDeviceConsole's health and alarm pollers and the alarm        *)
(* control action of DashboardView.  The device's answers, and whether a   *)
(* request fails, are the environment's choice.                            *)

HealthPeriod == 5000
AlarmPeriod == 3000

\* triggered_at: null
NoDate == -1

NoRequest == [id |-> 0, kind |-> "none"]

PageQuiet(name) == [op |-> name, toast |-> "none", settled |-> NoRequest]

HealthStatus(status, available, loaded) ==
    [ status |-> status,
      camera |-> [available |-> available],
      model  |-> [loaded |-> loaded] ]

\* what api.getHealth may resolve to
HealthResponses ==
    { HealthStatus("ok", TRUE, TRUE),
      HealthStatus("ok", TRUE, FALSE),
      HealthStatus("degraded", FALSE, TRUE) }

AlarmStatus(active, at) ==
    [ active |-> active, triggered_at |-> at,
      pulse_duration |-> 5000, voice_warning |-> "en_warning" ]

\* what api.getAlarmStatus may resolve to
AlarmResponses == { AlarmStatus(FALSE, NoDate), AlarmStatus(TRUE, 0) }

AlarmActions == {"trigger", "activate", "deactivate"}

\* controlAlarm answering activate and trigger alike
controlAlarm_NoTimestamp(action, t) ==
    AlarmStatus(action = "trigger" \/ action = "activate", NoDate)

\* EdgeDeviceAPI.controlAlarm: the status it resolves to, at time t
controlAlarm(action, t) ==
    AlarmStatus(action = "trigger" \/ action = "activate",
                IF action = "trigger" THEN t ELSE NoDate)

\* setHealth((prev) => (prev ? { ...prev, status: "degraded" } : null)) that
\* drops the held status
degradeHealth_Discard(prev) == <<>>

\* setHealth((prev) => (prev ? { ...prev, status: "degraded" } : null))
degradeHealth(prev) ==
    IF prev # <<>> THEN << [prev[1] EXCEPT !.status = "degraded"] >> ELSE <<>>

liveVars == << isModelLoaded, isStreaming, isProcessing, fps,
               streamIntervalRef, latencyHistoryRef, detectionHistoryRef,
               frameCountRef, currentLatency, detectionCount, sessionStats,
               detectionEvents, dashStreaming, filterLabel, minConfidence,
               showOverlay, canvas, images, timers, inflight, readers,
               script, calls, samples, appended, recorded, lastOp >>

\* a request handed to the device
Issue(queue, kind) == Append(queue, [id |-> requests + 1, kind |-> kind])

\* setInterval(pollHealth, 5000) fires: pollHealth up to its await
HealthTick ==
    /\ now = healthDue
    /\ healthDue' = healthDue + HealthPeriod
    /\ healthRequests' = Issue(healthRequests, "poll")
    /\ requests' = requests + 1
    /\ pageOp' = PageQuiet("pollHealth")
    /\ UNCHANGED << liveVars, alarmControlVars, now, health, alarmStatus, alarmDue, alarmRequests >>

\* setInterval(pollAlarm, 3000) fires: pollAlarm up to its await
AlarmTick ==
    /\ now = alarmDue
    /\ alarmDue' = alarmDue + AlarmPeriod
    /\ alarmRequests' = Issue(alarmRequests, "poll")
    /\ requests' = requests + 1
    /\ pageOp' = PageQuiet("pollAlarm")
    /\ UNCHANGED << liveVars, alarmControlVars, now, health, alarmStatus, healthDue, healthRequests >>

\* handleSettingsUpdate: its own pollHealth up to the await
handleSettingsUpdate ==
    /\ healthRequests' = Issue(healthRequests, "settings")
    /\ requests' = requests + 1
    /\ pageOp' = PageQuiet("handleSettingsUpdate")
    /\ UNCHANGED << liveVars, alarmControlVars, now, health, alarmStatus, healthDue, alarmDue,
                    alarmRequests >>

\* api.getHealth resolves: setHealth(healthData), in pollHealth and in
\* handleSettingsUpdate alike
HealthSuccess(i, healthData) ==
    /\ i \in DOMAIN healthRequests
    /\ health' = << healthData >>
    /\ healthRequests' = RemoveAt(healthRequests, i)
    /\ pageOp' = [op |-> "getHealth resolved", toast |-> "none",
                  settled |-> healthRequests[i]]
    /\ UNCHANGED << liveVars, alarmControlVars, now, alarmStatus, healthDue, alarmDue,
                    alarmRequests, requests >>

\* api.getHealth rejects: the poller degrades the held status and raises a
\* toast; handleSettingsUpdate only logs
HealthFailure(i) ==
    /\ i \in DOMAIN healthRequests
    /\ IF healthRequests[i].kind = "poll"
       THEN /\ health' = degradeHealth(health)
            /\ pageOp' = [op |-> "getHealth rejected",
                          toast |-> "Connection Error",
                          settled |-> healthRequests[i]]
       ELSE /\ health' = health
            /\ pageOp' = [op |-> "getHealth rejected", toast |-> "none",
                          settled |-> healthRequests[i]]
    /\ healthRequests' = RemoveAt(healthRequests, i)
    /\ UNCHANGED << liveVars, alarmControlVars, now, alarmStatus, healthDue, alarmDue,
                    alarmRequests, requests >>

\* pollAlarm after api.getAlarmStatus resolves: setAlarmStatus(alarmData)
pollAlarmSuccess(i, alarmData) ==
    /\ i \in DOMAIN alarmRequests
    /\ alarmRequests[i].kind = "poll"
    /\ alarmStatus' = << alarmData >>
    /\ alarmRequests' = RemoveAt(alarmRequests, i)
    /\ pageOp' = [op |-> "getAlarmStatus resolved", toast |-> "none",
                  settled |-> alarmRequests[i]]
    /\ UNCHANGED << liveVars, alarmControlVars, now, health, healthDue, alarmDue,
                    healthRequests, requests >>

\* pollAlarm whose failure also drops the held status
pollAlarmFailure_Discard(i) ==
    /\ i \in DOMAIN alarmRequests
    /\ alarmRequests[i].kind = "poll"
    /\ alarmStatus' = <<>>
    /\ alarmRequests' = RemoveAt(alarmRequests, i)
    /\ pageOp' = [op |-> "getAlarmStatus rejected", toast |-> "none",
                  settled |-> alarmRequests[i]]
    /\ UNCHANGED << liveVars, alarmControlVars, now, health, healthDue, alarmDue,
                    healthRequests, requests >>

\* pollAlarm after api.getAlarmStatus rejects: console.error only
pollAlarmFailure(i) ==
    /\ i \in DOMAIN alarmRequests
    /\ alarmRequests[i].kind = "poll"
    /\ alarmRequests' = RemoveAt(alarmRequests, i)
    /\ pageOp' = [op |-> "getAlarmStatus rejected", toast |-> "none",
                  settled |-> alarmRequests[i]]
    /\ UNCHANGED << liveVars, alarmControlVars, now, health, alarmStatus, healthDue, alarmDue,
                    healthRequests, requests >>

\* DashboardView.handleAlarmAction up to its await
handleAlarmAction(action) ==
    /\ alarmRequests' = Issue(alarmRequests, action)
    /\ requests' = requests + 1
    /\ pageOp' = PageQuiet("handleAlarmAction")
    /\ UNCHANGED << liveVars, alarmControlVars, now, health, alarmStatus, healthDue, alarmDue,
                    healthRequests >>

\* handleAlarmAction after api.controlAlarm resolves:
\* onAlarmStatusUpdate(response), which is setAlarmStatus(status)
controlAlarmSuccess(i) ==
    /\ i \in DOMAIN alarmRequests
    /\ alarmRequests[i].kind \in AlarmActions
    /\ alarmStatus' = << controlAlarm(alarmRequests[i].kind, now) >>
    /\ alarmRequests' = RemoveAt(alarmRequests, i)
    /\ pageOp' = [op |-> "controlAlarm resolved", toast |-> "Alarm Updated",
                  settled |-> alarmRequests[i]]
    /\ UNCHANGED << liveVars, alarmControlVars, now, health, healthDue, alarmDue,
                    healthRequests, requests >>

\* handleAlarmAction after api.controlAlarm rejects: the toast only
controlAlarmFailure(i) ==
    /\ i \in DOMAIN alarmRequests
    /\ alarmRequests[i].kind \in AlarmActions
    /\ alarmRequests' = RemoveAt(alarmRequests, i)
    /\ pageOp' = [op |-> "controlAlarm rejected", toast |-> "Alarm Error",
                  settled |-> alarmRequests[i]]
    /\ UNCHANGED << liveVars, alarmControlVars, now, health, alarmStatus, healthDue, alarmDue,
                    healthRequests, requests >>

\* time passes until the next interval is due
PassTime ==
    /\ now < healthDue /\ now < alarmDue
    /\ now' = IF healthDue < alarmDue THEN healthDue ELSE alarmDue
    /\ pageOp' = PageQuiet("none")
    /\ UNCHANGED << liveVars, alarmControlVars, health, alarmStatus, healthDue, alarmDue,
                    healthRequests, alarmRequests, requests >>

-----------------------------------------------------------------------------
(* AlarmControl: the alarm panel with its buttons and keyboard shortcuts.   *)
(* Its onStatusUpdate is the page's setAlarmStatus.                         *)

\* a status as types.ts declares it; the statuses api.ts builds carry no
\* `enabled`
DeviceAlarmStatus(enabled, active) == [enabled |-> enabled, active |-> active]

\* what the device may answer to a status poll
DeviceAlarmResponses ==
    AlarmResponses \cup { DeviceAlarmStatus(TRUE, FALSE), DeviceAlarmStatus(TRUE, TRUE) }

\* alarmStatus?.enabled
AlarmEnabled ==
    /\ alarmStatus # <<>>
    /\ "enabled" \in DOMAIN alarmStatus[1]
    /\ alarmStatus[1].enabled

\* alarmStatus?.active
AlarmActive == alarmStatus # <<>> /\ alarmStatus[1].active

\* AlarmControl.handleAlarmAction up to its await: setIsLoading(true) and
\* the request; `raised` is the toast the caller raised before it
AlarmControlAction(action, raised) ==
    /\ isLoading' = TRUE
    /\ controlRequests' = Issue(controlRequests, action)
    /\ requests' = requests + 1
    /\ pageOp' = [op |-> "AlarmControl.handleAlarmAction", toast |-> raised,
                  settled |-> NoRequest]
    /\ UNCHANGED << liveVars, now, health, alarmStatus, healthDue, alarmDue,
                    healthRequests, alarmRequests >>

\* <Button onClick={handleTriggerAlarm} disabled={!alarmStatus?.enabled || isLoading}>
TriggerClick ==
    /\ AlarmEnabled
    /\ ~isLoading
    /\ AlarmControlAction("trigger", "none")

\* <Button onClick={alarmStatus?.active ? handleDeactivateAlarm : handleActivateAlarm}
\*         disabled={!alarmStatus?.enabled || isLoading}>
ToggleClick ==
    /\ AlarmEnabled
    /\ ~isLoading
    /\ AlarmControlAction(IF AlarmActive THEN "deactivate" ELSE "activate",
                          "none")

\* <Button onClick={handleVoicePresetTrigger} disabled={...}>: a toast, then
\* handleTriggerAlarm
PlayWarningClick ==
    /\ AlarmEnabled
    /\ ~isLoading
    /\ AlarmControlAction("trigger", "Voice Warning Triggered")

ShortcutKeys == {"t", "a"}

\* handleKeyPress with the focus outside an input: "t" triggers, "a"
\* deactivates an active alarm and activates an inactive one
KeyPress(key) ==
    CASE key = "t" -> AlarmControlAction("trigger", "none")
      [] key = "a" -> AlarmControlAction(IF AlarmActive THEN "deactivate"
                                         ELSE "activate", "none")
      [] OTHER     -> FALSE

\* handleAlarmAction after api.controlAlarm resolves: onStatusUpdate and the
\* toast, then finally: setIsLoading(false)
AlarmControlSuccess(i) ==
    /\ i \in DOMAIN controlRequests
    /\ alarmStatus' = << controlAlarm(controlRequests[i].kind, now) >>
    /\ isLoading' = FALSE
    /\ controlRequests' = RemoveAt(controlRequests, i)
    /\ pageOp' = [op |-> "AlarmControl resolved",
                  toast |-> "Alarm Action Completed",
                  settled |-> controlRequests[i]]
    /\ UNCHANGED << liveVars, now, health, healthDue, alarmDue,
                    healthRequests, alarmRequests, requests >>

\* handleAlarmAction after api.controlAlarm rejects: the toast, then finally
AlarmControlFailure(i) ==
    /\ i \in DOMAIN controlRequests
    /\ isLoading' = FALSE
    /\ controlRequests' = RemoveAt(controlRequests, i)
    /\ pageOp' = [op |-> "AlarmControl rejected",
                  toast |-> "Alarm Action Failed",
                  settled |-> controlRequests[i]]
    /\ UNCHANGED << liveVars, now, health, alarmStatus, healthDue, alarmDue,
                    healthRequests, alarmRequests, requests >>

-----------------------------------------------------------------------------
(* Initial states and specifications *)

\* the page's part of the state where the page is not modelled
PageIdle ==
    /\ health = <<>>
    /\ alarmStatus = <<>>
    /\ healthDue = 0
    /\ alarmDue = 0
    /\ healthRequests = <<>>
    /\ alarmRequests = <<>>
    /\ requests = 0
    /\ pageOp = PageQuiet("none")
    /\ isLoading = FALSE
    /\ controlRequests = <<>>

Constructed ==
    /\ isStreaming = FALSE
    /\ isProcessing = FALSE
    /\ fps = 2
    /\ streamIntervalRef = 0
    /\ latencyHistoryRef = <<>>
    /\ detectionHistoryRef = <<>>
    /\ frameCountRef = 0
    /\ currentLatency = 0
    /\ detectionCount = 0
    /\ sessionStats = InitialStats
    /\ detectionEvents = <<>>
    /\ dashStreaming = FALSE
    /\ filterLabel = "all"
    /\ minConfidence = 0
    /\ timers = {}
    /\ now = 0
    /\ inflight = <<>>
    /\ readers = <<>>
    /\ calls = 0
    /\ samples = <<>>
    /\ appended = 0
    /\ recorded = <<>>
    /\ lastOp = Quiet("none")
    /\ showOverlay = TRUE
    /\ images = <<>>

(* The console with an unscripted device: any response, any interleaving *)

Init ==
    /\ Constructed
    /\ canvas = BlankCanvas
    /\ PageIdle
    /\ isModelLoaded \in BOOLEAN
    /\ script = "free"

Next ==
    \/ StartStreamClick
    \/ StopStreamClick
    \/ \E f \in FpsOptions : SetFps(f)
    \/ \E b \in BOOLEAN : SetModelLoaded(b)
    \/ PropsChanged
    \/ \E t \in timers : (t.isProcessing \/ calls < CallBudget) /\ Tick(t)
    \/ calls < CallBudget /\ CaptureFrameClick
    \/ Len(readers) < MaxReaders /\ calls + Len(readers) < CallBudget /\ SelectFile
    \/ \E i \in DOMAIN readers : ReaderLoaded(i)
    \/ \E i \in DOMAIN inflight : \E dets \in FreeResponses : \E d \in ResponseDelays :
            InferenceSuccess(i, dets, now + d)
    \/ \E i \in DOMAIN inflight : \E d \in ResponseDelays : InferenceFailure(i, now + d)
    \/ handleStartStream
    \/ handleStopStream

Spec == Init /\ [][Next]_vars

(* The same console, allowed one more inference call *)

InitDeep ==
    /\ Constructed
    /\ canvas = BlankCanvas
    /\ PageIdle
    /\ isModelLoaded \in BOOLEAN
    /\ script = "deep"

SpecDeep == InitDeep /\ [][Next]_vars

(* Frames captured one after the other from a device that answers by a     *)
(* script: long runs that fill the latency buffer and the event store      *)

InitTelemetry ==
    /\ Constructed
    /\ canvas = BlankCanvas
    /\ PageIdle
    /\ isModelLoaded = TRUE
    /\ script \in Scripts

NextTelemetry ==
    \/ calls < MaxScriptCalls /\ CaptureFrameClick
    \/ \E i \in DOMAIN inflight :
          InferenceSuccess(i, ScriptDetections(script, inflight[i].id),
                           inflight[i].start + ScriptLatency(script, inflight[i].id))

SpecTelemetry == InitTelemetry /\ [][NextTelemetry]_vars

(* A few frames with idle periods of up to a minute between them *)

InitWindow ==
    /\ Constructed
    /\ canvas = BlankCanvas
    /\ PageIdle
    /\ isModelLoaded = TRUE
    /\ script = "free"

NextWindow ==
    \/ calls < MaxWindowCalls /\ CaptureFrameClick
    \/ \E i \in DOMAIN inflight : \E dets \in WindowResponses : \E d \in ResponseDelays :
          now + d <= MaxWindowClock /\ InferenceSuccess(i, dets, now + d)
    \/ \E d \in IdlePeriods : now + d <= MaxWindowClock /\ AdvanceClock(d)

SpecWindow == InitWindow /\ [][NextWindow]_vars

(* A small event store under the DetectionsList filter *)

NextFilter ==
    \/ calls < MaxFilterCalls /\ CaptureFrameClick
    \/ \E i \in DOMAIN inflight : \E dets \in FilterResponses : \E d \in ResponseDelays :
          InferenceSuccess(i, dets, now + d)
    \/ \E l \in {"all"} \cup uniqueLabels : SetFilterLabel(l)
    \/ \E m \in MinConfidenceInputs : SetMinConfidence(m)

SpecFilter == InitWindow /\ [][NextFilter]_vars

(* The page from its mount: both effects have armed their interval; the    *)
(* first pollHealth() and pollAlarm() are the ticks due at time 0          *)

InitPage ==
    /\ Constructed
    /\ canvas = BlankCanvas
    /\ PageIdle
    /\ isModelLoaded = TRUE
    /\ script = "page"

NextPage ==
    \/ HealthTick
    \/ AlarmTick
    \/ /\ requests < MaxPageRequests
       /\ Len(healthRequests) + Len(alarmRequests) < MaxPendingRequests
       /\ handleSettingsUpdate
    \/ \E i \in DOMAIN healthRequests : \E h \in HealthResponses : HealthSuccess(i, h)
    \/ \E i \in DOMAIN healthRequests : HealthFailure(i)
    \/ \E i \in DOMAIN alarmRequests : \E a \in AlarmResponses : pollAlarmSuccess(i, a)
    \/ \E i \in DOMAIN alarmRequests : pollAlarmFailure(i)
    \/ \E action \in AlarmActions :
          /\ requests < MaxPageRequests
          /\ Len(healthRequests) + Len(alarmRequests) < MaxPendingRequests
          /\ handleAlarmAction(action)
    \/ \E i \in DOMAIN alarmRequests : controlAlarmSuccess(i)
    \/ \E i \in DOMAIN alarmRequests : controlAlarmFailure(i)
    \/ /\ Len(healthRequests) + Len(alarmRequests) < MaxPendingRequests
       /\ (IF healthDue < alarmDue THEN healthDue ELSE alarmDue) <= MaxPageClock
       /\ PassTime

SpecPage == InitPage /\ [][NextPage]_vars

(* drawBoundingBoxes on surfaces of several sizes *)

Surfaces ==
    { BlankCanvas,
      [width |-> 400, height |-> 200, image |-> TRUE, boxes |-> <<>>],
      [width |-> 800, height |-> 533, image |-> TRUE, boxes |-> <<>>],
      [width |-> 300, height |-> 600, image |-> TRUE, boxes |-> <<>>] }

Tall == [label |-> "person", confidence |-> 870,
         x_min |-> 30, y_min |-> 20, x_max |-> 90, y_max |-> 180]

PaintInputs == { <<>>, <<Car90>>, <<Tall>>, <<Car90, Tall>>, <<Tall, Car90>> }

InitPaint ==
    /\ Constructed
    /\ PageIdle
    /\ isModelLoaded = TRUE
    /\ script = "paint"
    /\ canvas \in Surfaces

NextPaint ==
    \/ \E dets \in PaintInputs : \E size \in ImageSizes : DrawBoxes(dets, size)
    \/ ToggleOverlay

SpecPaint == InitPaint /\ [][NextPaint]_vars

(* Frames from a device that returns the image with its response *)

CanvasScripts == {"wide", "tall", "blind"}

InitCanvas ==
    /\ Constructed
    /\ canvas = BlankCanvas
    /\ PageIdle
    /\ isModelLoaded = TRUE
    /\ script \in CanvasScripts

NextCanvas ==
    \/ calls < MaxCanvasCalls /\ CaptureFrameClick
    \/ \E i \in DOMAIN inflight : \E dets \in PaintInputs : \E d \in ResponseDelays :
          InferenceSuccess(i, dets, now + d)
    \/ \E i \in DOMAIN images : ImageLoaded(i)
    \/ ToggleOverlay

SpecCanvas == InitCanvas /\ [][NextCanvas]_vars

(* The alarm panel next to the alarm poller's first read-back *)

InitAlarmControl ==
    /\ Constructed
    /\ canvas = BlankCanvas
    /\ PageIdle
    /\ isModelLoaded = TRUE
    /\ script = "alarm"

NextAlarmControl ==
    \/ AlarmTick
    \/ \E i \in DOMAIN alarmRequests : \E a \in DeviceAlarmResponses :
          pollAlarmSuccess(i, a)
    \/ \E i \in DOMAIN alarmRequests : pollAlarmFailure(i)
    \/ requests < MaxControlRequests /\ TriggerClick
    \/ requests < MaxControlRequests /\ ToggleClick
    \/ requests < MaxControlRequests /\ PlayWarningClick
    \/ \E key \in ShortcutKeys : requests < MaxControlRequests /\ KeyPress(key)
    \/ \E i \in DOMAIN controlRequests : AlarmControlSuccess(i)
    \/ \E i \in DOMAIN controlRequests : AlarmControlFailure(i)

SpecAlarmControl == InitAlarmControl /\ [][NextAlarmControl]_vars

-----------------------------------------------------------------------------
(* Properties *)

InLog(name, log) == \E k \in DOMAIN log : log[k] = name

\* C1: starting the stream while the model is reported not loaded is rejected:
\* whenever an operation runs LiveView.startStream with isModelLoaded false,
\* or DashboardView.handleStartStream runs with the model not loaded, the
\* "Model Not Loaded" toast is raised, no timer is created, no inference call
\* is issued and the streaming state is Stopped afterwards.
C1_StartRejectedWhenNotLoaded ==
    [][ /\ (InLog("startStream", lastOp'.log) /\ ~isModelLoaded')
            => /\ lastOp'.toast = "Model Not Loaded"
               /\ timers' \subseteq timers
               /\ calls' = calls /\ inflight' = inflight
               /\ ~isStreaming'
        /\ (handleStartStream /\ ~isModelLoaded)
            => /\ lastOp'.toast = "Model Not Loaded"
               /\ timers' = timers
               /\ calls' = calls /\ inflight' = inflight
               /\ ~dashStreaming' /\ isStreaming' = isStreaming
      ]_vars

\* C1 witness: startStream has just run with the model not loaded and the
\* stream is stopped with the failure reported
C1_Witness ==
    /\ InLog("startStream", lastOp.log)
    /\ ~isModelLoaded
    /\ lastOp.toast = "Model Not Loaded"
    /\ ~isStreaming
    /\ timers = {}

\* C2: a scheduler tick that fires while the call of an earlier scheduler
\* cycle is still unsettled issues no inference call.
C2_TickWhileBusyIssuesNoCall ==
    [][ ((\E t \in timers : Tick(t))
          /\ \E k \in DOMAIN inflight : inflight[k].source = "tick")
        => calls' = calls /\ inflight' = inflight ]_vars

Min(a, b) == IF a < b THEN a ELSE b

\* the last n elements of s
LastN(s, n) == SubSeq(s, Len(s) - n + 1, Len(s))

\* C3: after any sequence of successful inference cycles the latency buffer
\* holds at most 60 samples, and they are exactly the most recent min(n, 60)
\* of the n samples recorded so far, in arrival order.
C3_LatencyBufferKeepsLast60 ==
    /\ Len(latencyHistoryRef) <= LatencyCapacity
    /\ latencyHistoryRef =
           LastN(samples, Min(Len(samples), LatencyCapacity))

\* C3 witness: two samples more than the capacity have been recorded and the
\* two oldest are gone
C3_Witness ==
    /\ Len(samples) = LatencyCapacity + 2
    /\ Len(latencyHistoryRef) = LatencyCapacity
    /\ latencyHistoryRef[1] = samples[3]
    /\ samples[1] # samples[3]

\* C4: the avgLatency published after a successful cycle is the sum of the
\* samples in the latency buffer divided by their number.
C4_AvgLatencyIsMean ==
    LET avg == sessionStats.avgLatency
    IN IF samples = <<>>
       THEN avg.num = 0 /\ avg.den = 1
       ELSE /\ avg.den > 0
            /\ avg.num * Len(latencyHistoryRef)
                   = SumSeq(latencyHistoryRef) * avg.den

\* C4 witness: the buffer is full, has evicted, holds distinct values, and a
\* mean has been published for it
C4_Witness ==
    /\ Len(samples) > LatencyCapacity
    /\ latencyHistoryRef[1] # latencyHistoryRef[2]
    /\ sessionStats.avgLatency.den = LatencyCapacity
    /\ sessionStats.avgLatency.num = SumSeq(latencyHistoryRef)

\* C5: for a non-empty latency buffer of n samples the published p95Latency
\* is the element of rank floor(0.95 * n) (counted from 0, always below n) in
\* ascending order; on the buffer 10, 20, ..., 600 it is 580.
C5_P95IsRankElement ==
    LET hist == latencyHistoryRef
        n == Len(hist)
        rank == (n * 95) \div 100
        p95 == sessionStats.p95Latency
    IN /\ n = 0 => p95 = 0
       /\ n > 0 =>
            /\ rank < n
            /\ \E k \in DOMAIN hist : hist[k] = p95
            /\ Cardinality({k \in DOMAIN hist : hist[k] < p95}) <= rank
            /\ Cardinality({k \in DOMAIN hist : hist[k] <= p95}) > rank
       /\ hist = [k \in 1 .. 60 |-> 10 * k] => p95 = 580

\* C5 witness: the buffer is 10, 20, ..., 600 and 580 is published
C5_Witness ==
    /\ latencyHistoryRef = [k \in 1 .. 60 |-> 10 * k]
    /\ sessionStats.p95Latency = 580

\* the window entries recorded so far that are less than 60,000 ms older
\* than time t
Within(t) == SelectSeq(recorded, LAMBDA entry : t - entry.timestamp < WindowMs)

\* time of the most recent successful cycle
LastCycleTime ==
    IF recorded = <<>> THEN 0 ELSE recorded[Len(recorded)].timestamp

\* C6: the published detectionsPerMin is the plain sum of the counts of
\* exactly the entries recorded less than 60,000 ms before the most recent
\* successful cycle, which is when the figure is computed; an entry that is
\* 60,000 ms old or older at that cycle does not count, and between cycles
\* the published figure does not change.
C6_RollingSumAtLastCycle ==
    [][ /\ detectionHistoryRef' = Within(LastCycleTime)'
        /\ sessionStats'.detectionsPerMin = SumCounts(Within(LastCycleTime))'
        /\ recorded' = recorded
             => sessionStats'.detectionsPerMin = sessionStats.detectionsPerMin
      ]_vars

\* C6 witness: an entry with detections has aged out of the window by the
\* time of a later cycle, and the figure published by that cycle omits it
C6_Witness ==
    /\ Len(recorded) >= 2
    /\ recorded[1].count > 0
    /\ LastCycleTime - recorded[1].timestamp >= WindowMs
    /\ sessionStats.detectionsPerMin = recorded[Len(recorded)].count
    /\ now = LastCycleTime

\* C6 as stated: at any time the reported detectionsPerMin is the sum of the
\* counts of the entries less than 60,000 ms old at that time, so it is 0
\* once the only entry is 61 s old.
C6_RollingSumAtAnyTime ==
    sessionStats.detectionsPerMin = SumCounts(Within(now))

\* what C7 says of the store after `appended` events were handed to it
StoreHoldsNewest ==
    /\ Len(detectionEvents) = Min(appended, StoreCapacity)
    /\ \A k \in DOMAIN detectionEvents :
           detectionEvents[k].id = appended - k + 1

\* C7: the detection event store holds at most 50 events, the most recently
\* appended first; appending to a full store drops exactly the event that
\* was inserted earliest and keeps the other 49 in order behind the new one.
C7_StoreKeepsNewest50 ==
    [][ /\ StoreHoldsNewest'
        /\ Len(detectionEvents') <= StoreCapacity
        /\ appended' # appended =>
             /\ detectionEvents'[1].id = appended'
             /\ Tail(detectionEvents') =
                    SubSeq(detectionEvents, 1, Len(detectionEvents') - 1)
      ]_vars

\* C7 witness: more events than the capacity were appended, the store is
\* full and its last event is the oldest survivor
C7_Witness ==
    /\ appended = StoreCapacity + 2
    /\ Len(detectionEvents) = StoreCapacity
    /\ detectionEvents[1].id = appended
    /\ detectionEvents[StoreCapacity].id = 3

\* the events C8 says the filter keeps
Matches(event) ==
    /\ \/ filterLabel = "all"
       \/ \E b \in DOMAIN event.detections :
              event.detections[b].label = filterLabel
    /\ \E b \in DOMAIN event.detections :
           event.detections[b].confidence * 100 >= minConfidence * 1000

\* C8: the filtered list is, in store order, exactly the events with at
\* least one box of the chosen label (or the filter is "all") and at least
\* one box of confidence >= minConfidence / 100; changing the filter leaves
\* the store as it is; label "car" with minimum 50 over the store
\* [{car 0.9}, {dog 0.4}, {car 0.3}] gives only the first event.
C8_FilterSelectsMatchingEvents ==
    [][ /\ LET kept == {k \in DOMAIN detectionEvents : Matches(detectionEvents[k])}
           IN /\ Len(filteredDetections) = Cardinality(kept)
              /\ \A k \in kept :
                   filteredDetections[Cardinality({m \in kept : m <= k})]
                       = detectionEvents[k]
        /\ (filterLabel' # filterLabel \/ minConfidence' # minConfidence)
               => detectionEvents' = detectionEvents
        /\ ( /\ Len(detectionEvents) = 3
             /\ detectionEvents[1].detections = <<Car90>>
             /\ detectionEvents[2].detections = <<Dog40>>
             /\ detectionEvents[3].detections = <<Car30>>
             /\ filterLabel = "car" /\ minConfidence = 50 )
               => filteredDetections = <<detectionEvents[1]>>
      ]_vars

\* C8 witness: the store is [{car 0.9}, {dog 0.4}, {car 0.3}], the filter is
\* "car" with minimum 50, and the list shows the first event only
C8_Witness ==
    /\ Len(detectionEvents) = 3
    /\ detectionEvents[1].detections = <<Car90>>
    /\ detectionEvents[2].detections = <<Dog40>>
    /\ detectionEvents[3].detections = <<Car30>>
    /\ filterLabel = "car" /\ minConfidence = 50
    /\ filteredDetections = <<detectionEvents[1]>>

\* C9: changing the frame rate while streaming stops the stream's timer and
\* then starts one whose interval is 1000 / fps for the new rate; the old
\* timer is gone, and there is never more than one timer.
C9_RateChangeReplacesTimer ==
    [][ /\ Cardinality(timers') <= 1
        /\ (isStreaming /\ fps' # fps) =>
             /\ lastOp'.log = <<"stopStream", "startStream">>
             /\ isStreaming'
             /\ timers' \cap timers = {}
             /\ \E t \in timers' :
                    /\ timers' = {t}
                    /\ t.id = streamIntervalRef'
                    /\ t.interval * fps' = 1000
      ]_vars

\* C9 witness: the rate was changed to 4 while streaming and the one timer
\* has a 250 ms interval
C9_Witness ==
    /\ isStreaming
    /\ fps = 4
    /\ lastOp.log = <<"stopStream", "startStream">>
    /\ lastOp.settled = NoCall
    /\ \E t \in timers : timers = {t} /\ t.interval = 250
    /\ calls = 0

\* C10: stopping cancels the timer and leaves the stream stopped, and a
\* stopped stream has no timer, so no tick starts a cycle; a call that is
\* still in flight stays in flight, and when it succeeds while the stream is
\* stopped its latency, detection count and frame are recorded, and its
\* detection event is stored if it has detections.
C10_StopCancelsTimerOnly ==
    [][ /\ ~isStreaming' => timers' = {} /\ streamIntervalRef' = 0
        /\ (isStreaming /\ ~isStreaming') =>
             /\ InLog("stopStream", lastOp'.log)
             /\ \A k \in DOMAIN inflight :
                    k = lastOp'.settled.id \/
                    \E m \in DOMAIN inflight' : inflight'[m] = inflight[k]
        /\ ( /\ ~isStreaming
             /\ lastOp'.settled # NoCall
             /\ lastOp'.toast # "Inference Failed" ) =>
             LET latency == now' - lastOp'.settled.start
             IN /\ currentLatency' = latency
                /\ latencyHistoryRef'[Len(latencyHistoryRef')] = latency
                /\ Len(samples') = Len(samples) + 1
                /\ detectionHistoryRef'[Len(detectionHistoryRef')] =
                       [timestamp |-> now', count |-> detectionCount']
                /\ frameCountRef' = frameCountRef + 1
                /\ sessionStats'.totalFrames = frameCountRef'
                /\ IF detectionCount' > 0
                   THEN /\ appended' = appended + 1
                        /\ detectionEvents'[1].timestamp = now'
                        /\ Len(detectionEvents'[1].detections) = detectionCount'
                   ELSE detectionEvents' = detectionEvents
      ]_vars

\* C10 witness: a cycle started by a tick has completed with a detection
\* after the stream was stopped, and has been recorded
C10_Witness ==
    /\ ~isStreaming
    /\ timers = {}
    /\ lastOp.settled.source = "tick"
    /\ lastOp.toast = "none"
    /\ frameCountRef = 1
    /\ detectionCount = 1
    /\ Len(detectionEvents) = 1
    /\ isModelLoaded

\* a step in which a cycle's inference call resolved
CycleSucceeded == lastOp'.settled # NoCall /\ lastOp'.toast # "Inference Failed"

\* a step in which a cycle's inference call was rejected
CycleFailed == lastOp'.settled # NoCall /\ lastOp'.toast = "Inference Failed"

\* C11: a cycle whose inference call fails leaves the stream as it was: a
\* running stream stays running with one armed timer that sees the busy
\* flag released, the call is not issued again by the failed cycle, and the
\* next tick of a running stream issues exactly one new call.
C11_FailedCycleKeepsStreaming ==
    [][ /\ CycleFailed =>
             /\ isStreaming' = isStreaming
             /\ ~isProcessing'
             /\ calls' = calls
             /\ Len(inflight') = Len(inflight) - 1
             /\ isStreaming =>
                  \E t \in timers' :
                      /\ timers' = {t}
                      /\ t.id = streamIntervalRef'
                      /\ ~t.isProcessing
                      /\ t.interval * fps = 1000
        /\ ( /\ lastOp.toast = "Inference Failed"
             /\ isStreaming
             /\ \E t \in timers : Tick(t) ) =>
             /\ calls' = calls + 1
             /\ Len(inflight') = Len(inflight) + 1
             /\ inflight'[Len(inflight')].id = calls'
             /\ inflight'[Len(inflight')].source = "tick"
      ]_vars

\* C11 witness: the call of a cycle started by a tick has just failed, the
\* stream is running with its timer armed and the busy flag released
C11_Witness ==
    /\ lastOp.toast = "Inference Failed"
    /\ lastOp.settled.source = "tick"
    /\ isStreaming
    /\ ~isProcessing
    /\ inflight = <<>>
    /\ \E t \in timers : timers = {t} /\ ~t.isProcessing
    /\ calls = 1

\* a step in which the page's request named `op` ended
PageStep(op) == pageOp'.op = op /\ pageOp'.settled # NoRequest

\* C12: a health poll that succeeds replaces the held HealthStatus by the
\* response; one that fails leaves an absent status absent and otherwise
\* changes only the status field, to "degraded", keeping camera and model.
C12_HealthPollDegradesInPlace ==
    [][ /\ PageStep("getHealth resolved") =>
             \E h \in HealthResponses : health' = << h >>
        /\ (PageStep("getHealth rejected") /\ pageOp'.settled.kind = "poll") =>
             IF health = <<>>
             THEN health' = <<>>
             ELSE /\ Len(health') = 1
                  /\ health'[1].status = "degraded"
                  /\ health'[1].camera = health[1].camera
                  /\ health'[1].model = health[1].model
      ]_vars

\* C12 witness: a health poll has just failed on a held status that was
\* "ok": it is now "degraded" with its camera and model fields as they were
C12_Witness ==
    /\ pageOp.op = "getHealth rejected"
    /\ pageOp.toast = "Connection Error"
    /\ health = << HealthStatus("degraded", TRUE, FALSE) >>

\* C13: an alarm poll that fails leaves the held AlarmStatus and the
\* HealthStatus as they were, one that succeeds replaces the AlarmStatus by
\* the response; a failed poll of either poller leaves both intervals and
\* the other poller's requests as they were, and no tick is ever overdue.
C13_AlarmPollFailureIsSilent ==
    [][ /\ PageStep("getAlarmStatus rejected") =>
             /\ alarmStatus' = alarmStatus
             /\ health' = health
             /\ healthRequests' = healthRequests
        /\ PageStep("getAlarmStatus resolved") =>
             \E a \in AlarmResponses : alarmStatus' = << a >>
        /\ (PageStep("getHealth rejected") /\ pageOp'.settled.kind = "poll") =>
             /\ alarmStatus' = alarmStatus
             /\ \A k \in DOMAIN alarmRequests :
                    alarmRequests'[k] = alarmRequests[k]
        /\ (PageStep("getAlarmStatus rejected") \/ PageStep("getHealth rejected")) =>
             /\ healthDue' = healthDue
             /\ alarmDue' = alarmDue
        /\ now' <= healthDue' /\ now' <= alarmDue'
        /\ now' = alarmDue' => alarmDue' % AlarmPeriod = 0
        /\ now' = healthDue' => healthDue' % HealthPeriod = 0
      ]_vars

\* C13 witness: an alarm poll has just failed after the first interval
\* while a status from an earlier poll is held, and the health interval is
\* still armed
C13_Witness ==
    /\ pageOp.op = "getAlarmStatus rejected"
    /\ alarmStatus = << AlarmStatus(TRUE, 0) >>
    /\ health # <<>>
    /\ now = AlarmPeriod
    /\ healthDue = HealthPeriod

\* C14: an alarm control action that succeeds replaces the held AlarmStatus
\* by the returned status, which is active with a triggered_at timestamp for
\* trigger, active without one for activate, and not active for deactivate;
\* one that fails leaves the held AlarmStatus as it was.
C14_AlarmControlResult ==
    [][ /\ PageStep("controlAlarm resolved") =>
             LET kind == pageOp'.settled.kind
             IN /\ Len(alarmStatus') = 1
                /\ kind = "trigger" =>
                     /\ alarmStatus'[1].active
                     /\ alarmStatus'[1].triggered_at = now'
                /\ kind = "activate" =>
                     /\ alarmStatus'[1].active
                     /\ alarmStatus'[1].triggered_at = NoDate
                /\ kind = "deactivate" => ~alarmStatus'[1].active
        /\ PageStep("controlAlarm rejected") => alarmStatus' = alarmStatus
      ]_vars

\* C14 witness: a trigger has just succeeded at a later time than the
\* held status came from, and the held status carries that time
C14_Witness ==
    /\ pageOp.op = "controlAlarm resolved"
    /\ pageOp.settled.kind = "trigger"
    /\ now > 0
    /\ alarmStatus = << AlarmStatus(TRUE, now) >>

\* C15: the store changes only in a successful cycle whose response has at
\* least one detection, and then by that one event; a successful cycle
\* without detections leaves it as it was; no stored event is without
\* detections.
C15_EventsOnlyFromDetections ==
    [][ /\ detectionEvents' # detectionEvents =>
             /\ CycleSucceeded
             /\ detectionCount' > 0
             /\ appended' = appended + 1
             /\ detectionEvents'[1].id = appended'
             /\ Len(detectionEvents'[1].detections) = detectionCount'
             /\ Tail(detectionEvents') = detectionEvents
        /\ (CycleSucceeded /\ detectionCount' = 0) =>
             detectionEvents' = detectionEvents /\ appended' = appended
        /\ \A k \in DOMAIN detectionEvents' :
               detectionEvents'[k].detections # <<>>
      ]_vars

\* C15 witness: a cycle with a detection stored its event and a later
\* successful cycle without detections stored nothing
C15_Witness ==
    /\ frameCountRef = 2
    /\ detectionCount = 0
    /\ lastOp.settled # NoCall /\ lastOp.toast = "none"
    /\ Len(detectionEvents) = 1
    /\ appended = 1

\* C16: the published totalFrames never decreases; it grows by exactly 1 in
\* a successful cycle and is unchanged by every other step, a failed cycle
\* and a dropped tick among them.
C16_TotalFramesCountsSuccesses ==
    [][ /\ sessionStats'.totalFrames >= sessionStats.totalFrames
        /\ CycleSucceeded =>
             sessionStats'.totalFrames = sessionStats.totalFrames + 1
        /\ ~CycleSucceeded =>
             sessionStats'.totalFrames = sessionStats.totalFrames
        /\ sessionStats'.totalFrames = frameCountRef'
      ]_vars

\* C16 witness: one cycle succeeded, a later one failed, and the count is 1
C16_Witness ==
    /\ sessionStats.totalFrames = 1
    /\ lastOp.toast = "Inference Failed"
    /\ calls = 2

\* C17: no published SessionStats has an average with a zero divisor, and
\* while the latency buffer is empty the published avgLatency, p95Latency
\* and detectionsPerMin are 0.
C17_EmptyBufferPublishesZeros ==
    /\ sessionStats.avgLatency.den > 0
    /\ sessionStats.latencyHistory = latencyHistoryRef
    /\ latencyHistoryRef = <<>> =>
         /\ sessionStats.avgLatency.num = 0
         /\ sessionStats.p95Latency = 0
         /\ sessionStats.detectionsPerMin = 0

\* C17 witness: two cycles have failed, nothing was ever recorded, and the
\* published stats are the initial zeros
C17_Witness ==
    /\ latencyHistoryRef = <<>>
    /\ calls = 2
    /\ inflight = <<>>
    /\ lastOp.toast = "Inference Failed"
    /\ sessionStats = InitialStats

\* C18: an inference call that has had no response 3,000 ms after it was
\* issued has failed, so no call is in flight longer than that.
C18_CallFailsAtDeadline ==
    \A k \in DOMAIN inflight : now - inflight[k].start <= 3000

\* C19: drawBoundingBoxes with the overlay shown draws one box per
\* detection, in order, at (x_min * scaleX, y_min * scaleY) with size
\* ((x_max - x_min) * scaleX, (y_max - y_min) * scaleY), where scaleX is
\* canvas.width / imageWidth and scaleY is canvas.height / imageHeight; the
\* box (0, 0, 100, 50) of a 200 x 100 image on a 400 x 200 canvas is drawn
\* at (0, 0) with size 200 x 100.
C19_BoxesScaledToSurface ==
    [][ \A dets \in PaintInputs : \A size \in ImageSizes :
          (DrawBoxes(dets, size) /\ showOverlay) =>
            /\ Len(canvas'.boxes) = Len(dets)
            /\ \A k \in DOMAIN dets :
                 LET box == canvas'.boxes[k]
                     d == dets[k]
                 IN /\ box.x.den > 0 /\ box.y.den > 0
                    /\ box.width.den > 0 /\ box.height.den > 0
                    /\ box.x.num * size.width
                         = d.x_min * canvas.width * box.x.den
                    /\ box.y.num * size.height
                         = d.y_min * canvas.height * box.y.den
                    /\ box.width.num * size.width
                         = (d.x_max - d.x_min) * canvas.width * box.width.den
                    /\ box.height.num * size.height
                         = (d.y_max - d.y_min) * canvas.height * box.height.den
            /\ ( /\ canvas.width = 400 /\ canvas.height = 200
                 /\ size = [width |-> 200, height |-> 100]
                 /\ dets = <<Car90>> ) =>
                 LET box == canvas'.boxes[1]
                 IN /\ box.x.num = 0 /\ box.y.num = 0
                    /\ box.width.num = 200 * box.width.den
                    /\ box.height.num = 100 * box.height.den
      ]_vars

\* C19 witness: the box (0, 0, 100, 50) of a 200 x 100 image has been drawn
\* on the 400 x 200 canvas at (0, 0) with size 200 x 100
C19_Witness ==
    /\ canvas.width = 400 /\ canvas.height = 200
    /\ Len(canvas.boxes) = 1
    /\ canvas.boxes[1].x.num = 0 /\ canvas.boxes[1].y.num = 0
    /\ canvas.boxes[1].width = [num |-> 100 * 400, den |-> 200]
    /\ canvas.boxes[1].height = [num |-> 50 * 200, den |-> 100]

\* C20: after a frame is painted the canvas shows the boxes of that frame
\* only, and none at all when the overlay is switched off at that time.
C20_PaintShowsCurrentFrameOnly ==
    [][ \A i \in DOMAIN images :
          ImageLoaded(i) =>
            IF showOverlay
            THEN Len(canvas'.boxes) = Len(images[i].detections)
            ELSE canvas'.boxes = <<>>
      ]_vars

\* C21: the latency buffer, the detection window and the frame count are
\* changed only by a successful cycle, which never leaves one of them empty
\* or smaller in count: stop, start, a rate change and a failed cycle leave
\* all three as they were.
C21_BuffersSurviveStopStart ==
    [][ /\ ~CycleSucceeded =>
             /\ latencyHistoryRef' = latencyHistoryRef
             /\ detectionHistoryRef' = detectionHistoryRef
             /\ frameCountRef' = frameCountRef
        /\ CycleSucceeded =>
             /\ latencyHistoryRef' # <<>>
             /\ detectionHistoryRef' # <<>>
             /\ frameCountRef' = frameCountRef + 1
      ]_vars

\* C21 witness: a running stream with one recorded frame has just been
\* stopped and started again by a rate change, and the buffers still hold
\* the frame
C21_Witness ==
    /\ lastOp.log = << "stopStream", "startStream" >>
    /\ lastOp.settled = NoCall
    /\ fps # 2
    /\ isStreaming
    /\ Len(latencyHistoryRef) = 1
    /\ Len(detectionHistoryRef) = 1
    /\ frameCountRef = 1

\* C22: an inference call is issued only while the model is reported loaded.
C22_NoCallWhileNotLoaded ==
    [][ calls' # calls => isModelLoaded ]_vars

\* C23: when a cycle's detection event is appended to the store, the overlay
\* of that cycle has already been painted: no image of the cycle is still
\* waiting to be drawn.
C23_PaintBeforeAppend ==
    [][ (CycleSucceeded /\ detectionEvents' # detectionEvents) =>
          \A k \in DOMAIN images' : images'[k].call # lastOp'.settled.id
      ]_vars

\* C24: at most one inference call is in flight at any time.
C24_AtMostOneCallInFlight == Len(inflight) <= 1

\* C25: a cycle whose call fails changes nothing of the telemetry, the
\* published stats, the event store or the canvas, and ends with the busy
\* flag cleared; the step that issued the call changed none of them either
\* and set the busy flag.
C25_FailedCycleLeavesTelemetry ==
    [][ /\ CycleFailed =>
             /\ latencyHistoryRef' = latencyHistoryRef
             /\ detectionHistoryRef' = detectionHistoryRef
             /\ frameCountRef' = frameCountRef
             /\ sessionStats' = sessionStats
             /\ detectionEvents' = detectionEvents
             /\ currentLatency' = currentLatency
             /\ detectionCount' = detectionCount
             /\ canvas' = canvas /\ images' = images
             /\ ~isProcessing'
        /\ calls' # calls =>
             /\ isProcessing'
             /\ latencyHistoryRef' = latencyHistoryRef
             /\ detectionHistoryRef' = detectionHistoryRef
             /\ frameCountRef' = frameCountRef
             /\ sessionStats' = sessionStats
             /\ detectionEvents' = detectionEvents
      ]_vars

\* C25 witness: after one successful cycle with a detection a second cycle
\* has just failed; buffers, stats and store hold the first cycle's entries
C25_Witness ==
    /\ lastOp.toast = "Inference Failed"
    /\ lastOp.settled.id = 2
    /\ inflight = <<>>
    /\ ~isProcessing
    /\ Len(latencyHistoryRef) = 1
    /\ Len(detectionHistoryRef) = 1
    /\ sessionStats.totalFrames = 1
    /\ Len(detectionEvents) = 1

\* C26: a timer is pending exactly when the stream is Running, and then
\* exactly one, the one streamIntervalRef holds; a start that passes the
\* precondition ends with one timer, a stop with none, and a rate change
\* while Stopped creates no timer and leaves the stream Stopped.
C26_TimerIffRunning ==
    [][ /\ (timers' # {}) <=> isStreaming'
        /\ Cardinality(timers') <= 1
        /\ \A t \in timers' : t.id = streamIntervalRef'
        /\ (StartStreamClick /\ isModelLoaded) =>
             isStreaming' /\ Cardinality(timers') = 1
        /\ StopStreamClick => ~isStreaming' /\ timers' = {}
        /\ (~isStreaming /\ fps' # fps) => ~isStreaming' /\ timers' = {}
      ]_vars

\* C26 witness: the rate has been changed and the stream is Stopped with no
\* timer, the last step having run neither startStream nor stopStream
C26_Witness ==
    /\ fps # 2
    /\ ~isStreaming
    /\ timers = {}
    /\ streamIntervalRef = 0
    /\ lastOp = Quiet("none")
    /\ calls = 0 /\ readers = <<>> /\ ~dashStreaming

\* C27: when the model is reported not loaded while the stream is Running
\* the timer is cancelled and the stream is Stopped; a later report that the
\* model is loaded leaves it Stopped; only the Start button makes a Stopped
\* stream Running.
C27_UnloadStopsUntilStart ==
    [][ /\ (isStreaming /\ isModelLoaded /\ ~isModelLoaded') =>
             ~isStreaming' /\ timers' = {} /\ streamIntervalRef' = 0
        /\ (~isStreaming /\ ~isModelLoaded /\ isModelLoaded') =>
             ~isStreaming' /\ timers' = {}
        /\ (~isStreaming /\ isStreaming') => StartStreamClick
      ]_vars

\* C27 witness: the model has just been reported not loaded to a running
\* stream: the effect stopped it and its restart was rejected
C27_Witness ==
    /\ ~isModelLoaded
    /\ lastOp.log = << "stopStream", "startStream" >>
    /\ lastOp.toast = "Model Not Loaded"
    /\ ~isStreaming
    /\ timers = {}

\* C28: the busy flag is true exactly while some inference call is unsettled.
C28_BusyExactlyWhileInFlight == isProcessing <=> (inflight # <<>>)

\* C29: at most one control request of AlarmControl is awaiting its
\* response, and isLoading is false only when none is.
C29_OneControlActionInFlight ==
    /\ Len(controlRequests) <= 1
    /\ ~isLoading => controlRequests = <<>>

\* C30: a status poll that was issued before a control action and resolves
\* right after that action has resolved does not replace the status the
\* action returned.
C30_StalePollKeepsControlStatus ==
    [][ ( /\ pageOp.op = "controlAlarm resolved"
          /\ PageStep("getAlarmStatus resolved")
          /\ pageOp'.settled.id < pageOp.settled.id ) =>
          alarmStatus' = alarmStatus
      ]_vars

=============================================================================
